---- MODULE Spec2Model ----
(***************************************************************************)
(* FilePromtForge: the concurrent document pipeline of the two program     *)
(* variants, src/Installer/installer.py ("installer") and                  *)
(* src/gpt_processor_main.py ("main").  The main thread loads the          *)
(* configuration, composes the system prompt, enumerates the input         *)
(* directory and submits one process_file task per document to a           *)
(* ThreadPoolExecutor; each task reads its document, calls the remote      *)
(* completion service under send_prompt's retry loop and writes the        *)
(* response.  The file system, the remote service and the scheduler are    *)
(* the environment: their outcomes are chosen nondeterministically.        *)
(***************************************************************************)
EXTENDS Integers, Sequences, FiniteSets, TLC

(* ------------------------------ bounds -------------------------------- *)
\* Largest number of documents in the input directory of an ordinary run.
MaxDocs == 2
\* Largest retry budget an APIClient is built with (main passes the default).
MaxRetries == 3

(* ------------------------- program constants -------------------------- *)
\* APIClient.__init__: backoff_factor=2
backoff_factor == 2
\* main: max_workers = min(5, len(input_files))
PoolCeiling == 5

Variants == {"installer", "main"}
\* Fragment names the --prompt list can mention; the first is the default.
FragmentNames == {"standard_prompt.txt", "extra.txt"}
FragmentStates == {"ok", "missing", "unreadable"}
PromptLists == {<<"standard_prompt.txt">>, <<"standard_prompt.txt", "extra.txt">>}

\* Texts are sequences of characters: "sp" and "nl" are a blank and a line
\* break, every other character is printable.
Whitespace == {"sp", "nl"}
\* The text create_default_prompt writes: printable from its first to its
\* last character.
DefaultPrompt == <<"d">>

\* Contents a fragment file can have: empty, plain, and with whitespace or
\* a blank line at either end.
Texts == {<<>>, <<"x">>, <<"y">>, <<"sp", "x">>, <<"y", "nl">>}
\* Composition lists with a repeated fragment name.
RepeatingLists == {<<"standard_prompt.txt", "standard_prompt.txt">>,
                   <<"extra.txt", "standard_prompt.txt", "extra.txt">>}

VARIABLES
    variant,        \* which program runs
    same_dir,       \* --output_dir names the input directory
    naming,         \* how the files of the input directory are named
    content,        \* prompts directory: text of each fragment file
    prompt_text,    \* the text load_prompts returned
    cache,          \* PromptManager.cache (installer.py)
    reads,          \* fragment files read by load_prompts, in order
    max_retries,    \* APIClient.max_retries
    prompt_files,   \* the composition list (args.prompt or the default)
    frag,           \* prompts directory: state of each fragment file
    ndocs,          \* number of regular files in the input directory
    faulty,         \* the environment of this run can fail (files, service)
    pc,             \* position of the main thread
    exit_status,    \* "none" while running, then the process exit status
    main_log,       \* log entries emitted by the main thread
    system_prompt,  \* fragments composed into the system prompt
    listed,         \* list_input_files has been called
    max_workers,    \* size of the ThreadPoolExecutor (0: none created)
    work_queue,     \* submitted work items not yet taken by a worker
    submitted,      \* number of documents submitted so far
    tpc,            \* per document: position of its process_file task
    attempt,        \* per document: send_prompt's loop variable
    events,         \* per document: I/O operations performed, in order
    tlog,           \* per document: log entries emitted by its task
    outfile,        \* per document: state of its output location
    outcome,        \* per document: how process_file ended
    uncaught,       \* per document: an exception left process_file
    call_results,   \* what a remote call of this run can end in
    caught,         \* per document: what each failed attempt caught, in order
    arg_prompt,     \* per document: system_prompt argument of its task
    sent            \* per document: system prompts its requests carried

vars == <<variant, max_retries, prompt_files, frag, ndocs, faulty, pc, exit_status,
          main_log, system_prompt, listed, max_workers, work_queue, submitted,
          tpc, attempt, events, tlog, outfile, outcome, uncaught,
          same_dir, naming, content, prompt_text, cache, reads,
          call_results, caught, arg_prompt, sent>>

runVars == <<variant, max_retries, prompt_files, ndocs, faulty, same_dir, naming,
             call_results>>
cfgVars == <<runVars, content>>
promptVars == <<prompt_text, cache, reads>>
mainVars == <<pc, exit_status, main_log, system_prompt, listed, max_workers,
              promptVars>>
reqVars == <<caught, arg_prompt, sent>>
taskVars == <<tpc, attempt, events, tlog, outfile, outcome, uncaught, reqVars>>

Docs == 1..ndocs

Min(a, b) == IF a <= b THEN a ELSE b

RECURSIVE Pow(_, _)
Pow(b, e) == IF e = 0 THEN 1 ELSE b * Pow(b, e - 1)

Ev(op, res, t) == [op |-> op, res |-> res, t |-> t]

Count(seq, x) == Cardinality({i \in DOMAIN seq : seq[i] = x})

(* ------------------------- module-level names ------------------------- *)
\* gpt_processor_main.py refers to a module-level name `logger` inside
\* PromptManager.load_prompts, FileHandler.read_file and FileHandler.write_file,
\* but binds `logger` only as a local of main(): the reference raises NameError.
\* Faulty variant: a logger bound at module level, so that the handlers log
\* and carry on.
ModuleLoggerBound == TRUE

ModuleLoggerDefined == FALSE

(* --------------------------- initial state ---------------------------- *)
InitWith(retries, doccounts, lists, fstates, envs) ==
    /\ variant \in Variants
    /\ faulty \in envs
    /\ max_retries \in retries
    /\ prompt_files \in lists
    /\ frag \in [FragmentNames -> fstates]
    \* a fragment file the list does not name is never looked at
    /\ \A f \in FragmentNames \ {prompt_files[i] : i \in DOMAIN prompt_files} :
         f = "standard_prompt.txt" \/ frag[f] = "ok"
    /\ ndocs \in doccounts
    /\ pc = "config"
    /\ exit_status = "none"
    /\ main_log = <<>>
    /\ system_prompt = <<>>
    /\ listed = FALSE
    /\ max_workers = 0
    /\ work_queue = <<>>
    /\ submitted = 0
    /\ tpc = [d \in Docs |-> "unsubmitted"]
    /\ attempt = [d \in Docs |-> 0]
    /\ events = [d \in Docs |-> <<>>]
    /\ tlog = [d \in Docs |-> <<>>]
    /\ outcome = [d \in Docs |-> "none"]
    /\ uncaught = [d \in Docs |-> FALSE]

\* The directories and file contents of a run, and the PromptManager as
\* constructed (empty cache).
InitFiles(samedirs, namings, texts, outs) ==
    /\ outfile \in [Docs -> outs]
    /\ same_dir \in samedirs
    /\ naming \in namings
    /\ content \in [FragmentNames -> texts]
    /\ prompt_text = <<>>
    /\ cache = <<>>
    /\ reads = <<>>

\* The remote service of a run, and the tasks' requests before any is made.
InitService(results) ==
    /\ call_results \in results
    /\ caught = [d \in Docs |-> <<>>]
    /\ arg_prompt = [d \in Docs |-> <<>>]
    /\ sent = [d \in Docs |-> {}]

Init ==
    /\ InitWith(1..MaxRetries, 0..MaxDocs, PromptLists, FragmentStates, {TRUE})
    /\ InitFiles({FALSE}, {"plain"}, {DefaultPrompt}, {"absent"})
    /\ InitService({{"ok", "api_error"}})

\* Runs over one document more than the pool ceiling, so that the ceiling
\* and not the document count limits the pool (in an environment without
\* faults), beside faulty runs over at most one document.
PoolDocs == PoolCeiling + 1

InitPool ==
    /\ \/ /\ InitWith(1..MaxRetries, {PoolDocs}, {<<"standard_prompt.txt">>}, {"ok"},
                   {FALSE})
          /\ InitService({{"ok"}})
       \/ /\ InitWith(1..MaxRetries, 0..1, PromptLists, FragmentStates, {TRUE})
          /\ InitService({{"ok", "api_error"}})
    /\ InitFiles({FALSE}, {"plain"}, {DefaultPrompt}, {"absent"})

(* --------------------------- PromptManager ---------------------------- *)
Listed(files) == {files[i] : i \in DOMAIN files}

\* str.strip(): leading and trailing whitespace removed.
RECURSIVE LStrip(_)
LStrip(t) == IF t # <<>> /\ Head(t) \in Whitespace THEN LStrip(Tail(t)) ELSE t

RECURSIVE RStrip(_)
RStrip(t) ==
    IF t # <<>> /\ t[Len(t)] \in Whitespace THEN RStrip(SubSeq(t, 1, Len(t) - 1))
                                             ELSE t

Strip(t) == RStrip(LStrip(t))

\* separator="\n\n"
Separator == <<"nl", "nl">>

\* Faulty variant: every occurrence of a name is read from its file.
CachedNever(f, c) == FALSE

\* `if prompt_file in self.cache`
Cached(f, c) == f \in DOMAIN c

\* installer.py load_prompts, the loop from position i on: a cached name
\* adds its cached text; otherwise the file is read, cached and added.  acc
\* holds combined_prompt, self.cache and the files read so far.
RECURSIVE load_loop_installer(_, _, _, _, _)
load_loop_installer(files, i, fs, txt, acc) ==
    IF i > Len(files) THEN acc
    ELSE LET f == files[i] IN
         IF Cached(f, acc.cache)
           THEN load_loop_installer(files, i + 1, fs, txt,
                    [acc EXCEPT !.text = @ \o acc.cache[f] \o Separator])
           ELSE IF fs[f] # "ok"
             THEN [acc EXCEPT !.raised = TRUE]
             ELSE load_loop_installer(files, i + 1, fs, txt,
                      [acc EXCEPT !.text = @ \o txt[f] \o Separator,
                                  !.cache = (f :> txt[f]) @@ @,
                                  !.reads = Append(@, f)])

\* gpt_processor_main.py load_prompts, the loop from position i on: every
\* name is opened and read; a failure is logged and the name skipped.
RECURSIVE load_loop_main(_, _, _, _, _)
load_loop_main(files, i, fs, txt, acc) ==
    IF i > Len(files) THEN acc
    ELSE LET f == files[i] IN
         IF fs[f] # "ok"
           THEN load_loop_main(files, i + 1, fs, txt, acc)
           ELSE load_loop_main(files, i + 1, fs, txt,
                    [acc EXCEPT !.parts = Append(@, txt[f]),
                                !.reads = Append(@, f)])

\* "\n".join(prompts)
RECURSIVE JoinLines(_)
JoinLines(parts) ==
    IF parts = <<>> THEN <<>>
    ELSE IF Len(parts) = 1 THEN parts[1]
    ELSE parts[1] \o <<"nl">> \o JoinLines(Tail(parts))

\* Faulty variant: fragments that cannot be read are left out.
load_prompts_skipping(files, fs, txt) ==
    LET r == load_loop_main(files, 1, fs, txt, [parts |-> <<>>, reads |-> <<>>]) IN
    [raised |-> FALSE, prompt |-> SelectSeq(files, LAMBDA f : fs[f] = "ok"),
     text |-> JoinLines(r.parts), cache |-> <<>>, reads |-> r.reads]

\* installer.py load_prompts: a fragment that is no file raises
\* FileNotFoundError, one that cannot be opened raises from open(); the
\* combined prompt is returned, stripped, only if every listed fragment
\* was read.
load_prompts_installer(files, fs, txt) ==
    LET r == load_loop_installer(files, 1, fs, txt,
                 [raised |-> FALSE, text |-> <<>>, cache |-> <<>>, reads |-> <<>>]) IN
    IF r.raised
      THEN [raised |-> TRUE, prompt |-> <<>>, text |-> <<>>,
            cache |-> r.cache, reads |-> r.reads]
      ELSE [raised |-> FALSE, prompt |-> files, text |-> Strip(r.text),
            cache |-> r.cache, reads |-> r.reads]

\* gpt_processor_main.py load_prompts: a fragment that cannot be opened is
\* handled by `except Exception: logger.error(...)`.  With the module-level
\* logger undefined the handler itself raises NameError, which leaves
\* load_prompts; were it defined, the fragment would be skipped.
load_prompts_main(files, fs, txt) ==
    LET r == load_loop_main(files, 1, fs, txt, [parts |-> <<>>, reads |-> <<>>]) IN
    IF (\E f \in Listed(files) : fs[f] # "ok") /\ ~ModuleLoggerDefined
      THEN [raised |-> TRUE, prompt |-> <<>>, text |-> <<>>, cache |-> <<>>,
            reads |-> <<>>]
      ELSE [raised |-> FALSE,
            prompt |-> SelectSeq(files, LAMBDA f : fs[f] = "ok"),
            text |-> JoinLines(r.parts), cache |-> <<>>, reads |-> r.reads]

load_prompts(v, files, fs, txt) ==
    IF v = "installer" THEN load_prompts_installer(files, fs, txt)
                       ELSE load_prompts_main(files, fs, txt)

\* installer.py create_default_prompt: writes standard_prompt.txt when it
\* is not a file of the prompts directory.
create_default_prompt(fs) ==
    IF fs["standard_prompt.txt"] = "missing"
      THEN [fs EXCEPT !["standard_prompt.txt"] = "ok"]
      ELSE fs

\* installer.py create_default_prompt, the text of the fragment files after
\* the call.
default_prompt_content(fs, txt) ==
    IF fs["standard_prompt.txt"] = "missing"
      THEN [txt EXCEPT !["standard_prompt.txt"] = DefaultPrompt]
      ELSE txt

(* ------------------------------ APIClient ----------------------------- *)
\* Faulty variant: a fixed delay instead of an exponential one.
SleepTimeFixed(a) == backoff_factor

\* sleep_time = self.backoff_factor ** attempt
SleepTime(a) == Pow(backoff_factor, a)

\* Faulty variant: `attempt <= self.max_retries`.
RetryDecisionInclusive(a, R) == IF a <= R THEN "sleep" ELSE "raise"

\* After a failed attempt: `if attempt < self.max_retries` sleep and go
\* round the loop again, else log and raise.
RetryDecision(a, R) == IF a < R THEN "sleep" ELSE "raise"

\* Faulty variant: "Max retries reached" logged on every failed attempt.
AttemptLogEveryTime(a, R) ==
    IF a < R THEN <<"attempt_error", "max_retries", "retrying">>
             ELSE <<"attempt_error", "max_retries">>

\* The entries send_prompt logs for a failed attempt: the error of the
\* attempt, then "Retrying in ..." or "Max retries reached ...".
AttemptLog(a, R) ==
    IF a < R THEN <<"attempt_error", "retrying">>
             ELSE <<"attempt_error", "max_retries">>

\* What send_prompt's try block can end in other than a returned text:
\* RateLimitError, OpenAIError, any other exception of the call, and the
\* IndexError of response.choices[0] when the result has no first choice.
ErrorKinds == {"rate_limit", "api_error", "other", "no_choice"}

\* Faulty variant: the result's first choice is taken outside the try
\* block, so a result without one is not caught.
CaughtOnlyCallErrors(res) == res \in ErrorKinds \ {"no_choice"}

\* The create call and response.choices[0] are both inside the try block,
\* whose three except clauses end in `except Exception`: everything but a
\* returned text is caught.
Caught(res) == res \in ErrorKinds

\* Faulty variant: after the last failed attempt send_prompt logs and
\* returns (None).
OnMaxRetriesReturn == "return"

\* send_prompt, after the last failed attempt: log "Max retries reached"
\* and `raise`.
OnMaxRetries == "raise"

\* Faulty variant: range(1, self.max_retries).
LoopEnteredShort(R) == R - 1 >= 1

\* for attempt in range(1, self.max_retries + 1): the loop body runs only
\* when max_retries >= 1; otherwise send_prompt falls off its end (None).
LoopEntered(R) == R >= 1

(* -------------------------- ThreadPoolExecutor ------------------------ *)
\* Faulty variant: one worker per document, no ceiling.
PoolSizeNoCeiling(n) == n

\* max_workers = min(5, len(input_files))
PoolSize(n) == Min(PoolCeiling, n)

\* Faulty variant: a worker whose task failed never takes another item.
ActiveLeaky ==
    {d \in Docs : tpc[d] \in {"read", "call", "sleep", "write"}
                     \/ outcome[d] = "exhausted"}

\* The work items a worker thread is running: a worker that finished its
\* item, however it ended, goes back to the queue.
Active == {d \in Docs : tpc[d] \in {"read", "call", "sleep", "write"}}

\* Faulty variant: shutdown(wait=False).
ExecutorExitNoWait == TRUE

\* Executor.__exit__ is shutdown(wait=True): it joins the workers, which
\* exit only when the work queue is drained and their item has finished.
ExecutorExitReady == \A d \in Docs : tpc[d] = "done"

\* The response process_file passes to the writer: the text send_prompt
\* returned, else None.
HasResponse(d) ==
    /\ events[d] # <<>>
    /\ events[d][Len(events[d])] = Ev("call", "ok", 0)

(* ----------------------------- environment ---------------------------- *)
\* Outcomes the environment can give each operation of this run.
ConfigResults == IF faulty THEN BOOLEAN ELSE {TRUE}
ReadResults == IF faulty THEN {"ok", "empty", "fail"} ELSE {"ok"}
CallResults == call_results
OpenWriteResults == IF faulty THEN {"ok", "open_fails", "write_fails"} ELSE {"ok"}

(* ------------------------------ file names ---------------------------- *)
\* A file name is a sequence of name parts: 0 stands for the text
\* "response_", a positive number for any other text.
ResponsePrefix == <<0>>

\* The names os.listdir gives for the input directory, one per document: in
\* a "plain" directory no name starts with "response_"; in a "nested" one
\* each name is "response_" followed by the name before it.
DocName(d) ==
    IF naming = "plain" THEN <<d>>
    ELSE [i \in 1..d |-> IF i < d THEN 0 ELSE 1]

\* list_input_files: os.path.join(self.input_dir, f)
InputPath(d) == [dir |-> "input_dir", name |-> DocName(d)]

\* Faulty variant: one fixed output name for every document.
OutputNameFixed(v, name) == ResponsePrefix

\* installer.py: os.path.basename(input_file);
\* gpt_processor_main.py: f"response_{os.path.basename(input_file)}"
OutputName(v, name) == IF v = "installer" THEN name ELSE ResponsePrefix \o name

\* os.path.join(self.output_dir, ...): the output location of document d.
OutputPath(d) ==
    [dir |-> IF same_dir THEN "input_dir" ELSE "output_dir",
     name |-> OutputName(variant, DocName(d))]

(* ----------------------------- main thread ---------------------------- *)
\* Faulty variant: the error is logged and main carries on.
OnConfigErrorContinue == "continue"

\* main, the handler around Config(...): logger.error(e); sys.exit(1)
OnConfigError == "exit"

\* Faulty variant: an empty listing is handed to the executor.
NoInputFilesIgnored(n) == FALSE

\* `if not input_files:`
NoInputFiles(n) == n = 0

\* Faulty variant: a failed document makes the run exit with status 1.
ExitStatusByOutcome(failed) == IF failed # {} THEN "1" ELSE "0"

\* main ends after the `with` block: the futures returned by submit are
\* never inspected, so the status is 0 whatever the tasks did.
ExitStatusAfterBatch(failed) == "0"

Exit(status) ==
    /\ pc' = "exited"
    /\ exit_status' = status

\* main: config = Config(args.config, base_dir); on any exception
\* logger.error(e); sys.exit(1).
main_load_config ==
    /\ pc = "config"
    /\ \E ok \in ConfigResults :
         IF ok
           THEN /\ pc' = "setup"
                /\ UNCHANGED <<exit_status, main_log>>
           ELSE /\ main_log' = Append(main_log, "config_error")
                /\ IF OnConfigError = "exit"
                     THEN Exit("1")
                     ELSE /\ pc' = "setup"
                          /\ UNCHANGED exit_status
    /\ UNCHANGED <<cfgVars, frag, system_prompt, promptVars, listed, max_workers,
                   work_queue, submitted, taskVars>>

\* main: ensure_directory(...) and, in installer.py only,
\* create_default_prompt(config.prompts_dir).
main_setup ==
    /\ pc = "setup"
    /\ pc' = "prompts"
    /\ frag' = IF variant = "installer" THEN create_default_prompt(frag) ELSE frag
    /\ content' = IF variant = "installer" THEN default_prompt_content(frag, content)
                                           ELSE content
    /\ UNCHANGED <<runVars, exit_status, main_log, system_prompt, promptVars,
                   listed, max_workers, work_queue, submitted, taskVars>>

\* main: system_prompt = prompt_manager.load_prompts(prompt_files).
\* installer.py wraps the call: logger.error(e); sys.exit(1).
\* gpt_processor_main.py does not: an exception ends main with a traceback.
main_load_prompts ==
    /\ pc = "prompts"
    /\ LET r == load_prompts(variant, prompt_files, frag, content) IN
         /\ cache' = r.cache
         /\ reads' = r.reads
         /\ IF r.raised
              THEN /\ Exit("1")
                   /\ main_log' = IF variant = "installer"
                                    THEN Append(main_log, "prompt_error")
                                    ELSE main_log
                   /\ UNCHANGED <<system_prompt, prompt_text>>
              ELSE /\ pc' = "list"
                   /\ system_prompt' = r.prompt
                   /\ prompt_text' = r.text
                   /\ UNCHANGED <<exit_status, main_log>>
    /\ UNCHANGED <<cfgVars, frag, listed, max_workers, work_queue, submitted,
                   taskVars>>

\* main: input_files = file_handler.list_input_files(); an empty list logs
\* and exits 0; otherwise the executor is created.
main_list_input_files ==
    /\ pc = "list"
    /\ listed' = TRUE
    /\ IF NoInputFiles(ndocs)
         THEN /\ Exit("0")
              /\ main_log' = Append(main_log, "no_input_files")
              /\ UNCHANGED max_workers
         ELSE /\ pc' = "submit"
              /\ max_workers' = PoolSize(ndocs)
              /\ UNCHANGED <<exit_status, main_log>>
    /\ UNCHANGED <<cfgVars, frag, system_prompt, promptVars, work_queue, submitted,
                   taskVars>>

\* Faulty variant: the list of fragment names is submitted in place of the
\* composed text.
SubmittedPromptNames == prompt_files

\* executor.submit(process_file, input_file, file_handler, api_client,
\* system_prompt, logger): the value main got from load_prompts.
SubmittedPrompt == prompt_text

\* main: for input_file in input_files: executor.submit(process_file, ...)
main_submit ==
    /\ pc = "submit"
    /\ submitted < ndocs
    /\ submitted' = submitted + 1
    /\ work_queue' = Append(work_queue, submitted + 1)
    /\ tpc' = [tpc EXCEPT ![submitted + 1] = "queued"]
    /\ arg_prompt' = [arg_prompt EXCEPT ![submitted + 1] = SubmittedPrompt]
    /\ UNCHANGED <<cfgVars, frag, mainVars, attempt, events, tlog, outfile,
                   outcome, uncaught, caught, sent>>

\* main: leaving the `with ThreadPoolExecutor(...)` block, then the end of
\* main (exit status 0).
main_executor_exit ==
    /\ pc = "submit"
    /\ submitted = ndocs
    /\ ExecutorExitReady
    /\ Exit(ExitStatusAfterBatch({d \in Docs : outcome[d] # "ok"}))
    /\ UNCHANGED <<cfgVars, frag, main_log, system_prompt, promptVars, listed,
                   max_workers, work_queue, submitted, taskVars>>

(* ------------------------------- workers ------------------------------ *)
\* Faulty variant: send_prompt sleeps while holding a lock that every step
\* of every task takes.
RunnableUnderLock(d) == \A e \in Docs \ {d} : tpc[e] # "sleep"

\* process_file and send_prompt take no lock, and time.sleep and the remote
\* call block only the calling thread: a task that holds a worker can run
\* whatever the other tasks are doing.
Runnable(d) == TRUE

Finish(d, how, entries, escaped) ==
    /\ tpc' = [tpc EXCEPT ![d] = "done"]
    /\ outcome' = [outcome EXCEPT ![d] = how]
    /\ tlog' = [tlog EXCEPT ![d] = @ \o entries]
    /\ uncaught' = [uncaught EXCEPT ![d] = escaped]

\* A worker thread takes the oldest work item and calls process_file.
worker_start(d) ==
    /\ work_queue # <<>>
    /\ d = Head(work_queue)
    /\ Cardinality(Active) < max_workers
    /\ work_queue' = Tail(work_queue)
    /\ tpc' = [tpc EXCEPT ![d] = "read"]
    /\ UNCHANGED <<cfgVars, frag, mainVars, submitted, attempt, events, tlog,
                   outfile, outcome, uncaught, reqVars>>

\* Faulty variant: the counter is kept on the shared APIClient, so a request
\* starts where the failures of the other requests left it.
FirstAttemptShared(d) ==
    IF \E e \in Docs \ {d} : Count(events[e], Ev("call", "fail", 0)) > 0 THEN 2 ELSE 1

\* for attempt in range(1, ...): `attempt` is a local of this call of
\* send_prompt and starts at 1.
FirstAttempt(d) == 1

\* What process_file does once the document's text is in hand: it calls
\* send_prompt, whose loop starts at attempt 1.
EnterSendPrompt(d) ==
    /\ tpc' = [tpc EXCEPT ![d] = IF LoopEntered(max_retries) THEN "call" ELSE "write"]
    /\ attempt' = [attempt EXCEPT ![d] = IF LoopEntered(max_retries)
                                            THEN FirstAttempt(d) ELSE 0]
    /\ UNCHANGED <<tlog, outcome, uncaught>>

\* installer.py: read_file raises IOError on failure, which process_file's
\* `except Exception` logs.
read_installer(d, res) ==
    IF res = "fail"
      THEN /\ Finish(d, "read_error", <<"process_error">>, FALSE)
           /\ UNCHANGED attempt
      ELSE EnterSendPrompt(d)

\* gpt_processor_main.py: read_file's handler logs through the module-level
\* logger and returns ""; the call is outside process_file's try block, and
\* an empty user prompt is logged and ends the task.
read_main(d, res) ==
    CASE res = "fail" /\ ~ModuleLoggerDefined ->
           /\ Finish(d, "read_error", <<>>, TRUE)
           /\ UNCHANGED attempt
      [] res = "fail" /\ ModuleLoggerDefined ->
           /\ Finish(d, "read_error", <<"read_error", "empty_prompt">>, FALSE)
           /\ UNCHANGED attempt
      [] res = "empty" ->
           /\ Finish(d, "empty", <<"empty_prompt">>, FALSE)
           /\ UNCHANGED attempt
      [] OTHER -> EnterSendPrompt(d)

\* process_file: user_prompt = file_handler.read_file(input_file)
process_file_read(d) ==
    /\ tpc[d] = "read"
    /\ Runnable(d)
    /\ \E res \in ReadResults :
         /\ events' = [events EXCEPT ![d] = Append(@, Ev("read", res, 0))]
         /\ IF variant = "installer" THEN read_installer(d, res)
                                     ELSE read_main(d, res)
    /\ UNCHANGED <<cfgVars, frag, mainVars, work_queue, submitted, outfile, reqVars>>

\* send_prompt, one pass of the loop body: the remote call, then either
\* return, or log the failure and decide between backoff and raise.  The
\* raise is caught by process_file's `except Exception` and logged.
send_prompt_call(d) ==
    /\ tpc[d] = "call"
    /\ Runnable(d)
    /\ sent' = [sent EXCEPT ![d] = @ \cup {arg_prompt[d]}]
    /\ \E res \in CallResults :
         IF res = "ok"
           THEN /\ events' = [events EXCEPT ![d] = Append(@, Ev("call", "ok", 0))]
                /\ tpc' = [tpc EXCEPT ![d] = "write"]
                /\ UNCHANGED <<tlog, outcome, uncaught, caught>>
           ELSE IF ~Caught(res)
           THEN /\ events' = [events EXCEPT ![d] = Append(@, Ev("call", "fail", 0))]
                /\ Finish(d, "request_error", <<"process_error">>, FALSE)
                /\ UNCHANGED caught
           ELSE /\ events' = [events EXCEPT ![d] = Append(@, Ev("call", "fail", 0))]
                /\ caught' = [caught EXCEPT ![d] = Append(@, res)]
                /\ IF RetryDecision(attempt[d], max_retries) = "sleep"
                     THEN /\ tpc' = [tpc EXCEPT ![d] = "sleep"]
                          /\ tlog' = [tlog EXCEPT ![d] =
                                        @ \o AttemptLog(attempt[d], max_retries)]
                          /\ UNCHANGED <<outcome, uncaught>>
                     ELSE IF OnMaxRetries = "raise"
                     THEN Finish(d, "exhausted",
                                 AttemptLog(attempt[d], max_retries)
                                   \o <<"process_error">>,
                                 FALSE)
                     ELSE /\ tpc' = [tpc EXCEPT ![d] = "write"]
                          /\ tlog' = [tlog EXCEPT ![d] =
                                        @ \o AttemptLog(attempt[d], max_retries)]
                          /\ UNCHANGED <<outcome, uncaught>>
    /\ UNCHANGED <<cfgVars, frag, mainVars, work_queue, submitted, attempt, outfile,
                   arg_prompt>>

\* send_prompt: time.sleep(sleep_time), then the next value of `attempt`.
send_prompt_sleep(d) ==
    /\ tpc[d] = "sleep"
    /\ Runnable(d)
    /\ events' = [events EXCEPT ![d] = Append(@, Ev("sleep", "ok", SleepTime(attempt[d])))]
    /\ attempt' = [attempt EXCEPT ![d] = @ + 1]
    /\ tpc' = [tpc EXCEPT ![d] = "call"]
    /\ UNCHANGED <<cfgVars, frag, mainVars, work_queue, submitted, tlog, outfile,
                   outcome, uncaught, reqVars>>

\* open(output_file, 'w') creates or truncates the file before
\* file.write(content) runs; write(None) raises TypeError.
WriteResults(d) ==
    IF HasResponse(d) THEN OpenWriteResults
                      ELSE {"open_fails", "write_fails"}

FileAfterWrite(old, res) ==
    CASE res = "ok" -> "written"
      [] res = "write_fails" -> "truncated"
      [] OTHER -> old

\* Faulty variant: a failed write is swallowed without a log entry.
WriteLogSilent(v, res) ==
    IF res = "ok" /\ v = "installer" THEN <<"processed">> ELSE <<>>

\* installer.py write_output raises IOError on failure (logged by
\* process_file); gpt_processor_main.py write_file logs through the
\* module-level logger, and the NameError that raises is caught and logged
\* by process_file.  Only installer.py logs a success.
WriteLog(v, res) ==
    CASE res = "ok" /\ v = "installer" -> <<"processed">>
      [] res = "ok" /\ v = "main" -> <<>>
      [] res # "ok" /\ v = "main" /\ ModuleLoggerDefined -> <<"write_error">>
      [] OTHER -> <<"process_error">>

\* process_file: the write of the response to the output location.
process_file_write(d) ==
    /\ tpc[d] = "write"
    /\ Runnable(d)
    /\ \E res \in WriteResults(d) :
         /\ events' = [events EXCEPT ![d] = Append(@, Ev("write", res, 0))]
         /\ outfile' = [outfile EXCEPT ![d] = FileAfterWrite(@, res)]
         /\ Finish(d, IF res = "ok" THEN "ok" ELSE "write_error",
                   WriteLog(variant, res), FALSE)
    /\ UNCHANGED <<cfgVars, frag, mainVars, work_queue, submitted, attempt, reqVars>>

Next ==
    \/ main_load_config
    \/ main_setup
    \/ main_load_prompts
    \/ main_list_input_files
    \/ main_submit
    \/ main_executor_exit
    \/ \E d \in Docs : worker_start(d)
    \/ \E d \in Docs : process_file_read(d)
    \/ \E d \in Docs : send_prompt_call(d)
    \/ \E d \in Docs : send_prompt_sleep(d)
    \/ \E d \in Docs : process_file_write(d)

Spec == Init /\ [][Next]_vars

SpecPool == InitPool /\ [][Next]_vars

\* Runs over the ways the directories can be laid out: the output directory
\* separate from or equal to the input directory, and input files whose
\* names are or are not output names of one another.
InitLayouts ==
    /\ InitWith({1, 2}, 1..MaxDocs, {<<"standard_prompt.txt">>}, {"ok"}, {TRUE})
    /\ InitFiles(BOOLEAN, {"plain", "nested"}, {DefaultPrompt}, {"absent"})
    /\ InitService({{"ok", "api_error"}})

SpecFiles == InitLayouts /\ [][Next]_vars

\* Runs over the fragment lists (with and without repeated names) and the
\* fragment contents load_prompts can be given.
InitPrompt ==
    /\ InitWith({2}, 0..1, PromptLists \cup RepeatingLists, FragmentStates, {TRUE})
    /\ InitFiles({FALSE}, {"plain"}, Texts, {"absent"})
    /\ InitService({{"ok", "api_error"}})

SpecPrompt == InitPrompt /\ [][Next]_vars

\* Runs of one document over every way a remote call can end, with the
\* values APIClient accepts for max_retries, zero and negative included.
InitRetry ==
    /\ InitWith({-1, 0} \cup 1..MaxRetries, {1}, {<<"standard_prompt.txt">>}, {"ok"},
                {TRUE})
    /\ InitFiles({FALSE}, {"plain"}, {DefaultPrompt}, {"absent"})
    /\ InitService({{"ok"} \cup ErrorKinds})

SpecRetry == InitRetry /\ [][Next]_vars

\* Runs that find output files of an earlier run ("stale") at some of the
\* output locations.
InitStale ==
    /\ InitWith({1, 2}, 1..MaxDocs, {<<"standard_prompt.txt">>}, {"ok"}, {TRUE})
    /\ InitFiles({FALSE}, {"plain"}, {DefaultPrompt}, {"absent", "stale"})
    /\ InitService({{"ok", "api_error"}})

SpecStale == InitStale /\ [][Next]_vars

\* The steps of the main thread, and the steps of document d's task.
MainStep ==
    \/ main_load_config
    \/ main_setup
    \/ main_load_prompts
    \/ main_list_input_files
    \/ main_submit
    \/ main_executor_exit

TaskStep(d) ==
    /\ d \in Docs
    /\ \/ worker_start(d)
       \/ process_file_read(d)
       \/ send_prompt_call(d)
       \/ send_prompt_sleep(d)
       \/ process_file_write(d)

\* The main thread and every worker thread keep being scheduled, and every
\* file operation, remote call and sleep returns.
Fairness ==
    /\ WF_vars(MainStep)
    /\ \A d \in 1..PoolDocs : WF_vars(TaskStep(d))

\* Runs against a service that is down (every remote call fails), over
\* input directories of up to one document more than the pool can hold,
\* next to runs of one document against a service that answers.
InitOutage ==
    /\ \/ /\ InitWith({1, 2}, 1..PoolDocs, {<<"standard_prompt.txt">>}, {"ok"}, {FALSE})
          /\ InitService({{"api_error"}})
       \/ /\ InitWith({1, 2}, 0..1, {<<"standard_prompt.txt">>}, {"ok"}, {TRUE})
          /\ InitService({{"ok", "api_error"}})
    /\ InitFiles({FALSE}, {"plain"}, {DefaultPrompt}, {"absent"})

SpecOutage == InitOutage /\ [][Next]_vars /\ Fairness

(* ============================== claims ================================ *)
Done(d) == tpc[d] = "done"

EventsOf(d, ops) == SelectSeq(events[d], LAMBDA e : e.op \in ops)

FailedCalls(d) == Count(events[d], Ev("call", "fail", 0))

WriteStarted(d) == EventsOf(d, {"write"}) # <<>>

\* process_file ended d's task on an error of one of its three steps.
Failed(d) == Done(d) /\ outcome[d] \in {"read_error", "exhausted", "write_error"}

\* The run went through the `with ThreadPoolExecutor` block and returned.
RunFinished == pc = "exited" /\ ndocs > 0 /\ submitted = ndocs

\* An output file exists at d's output location.
OutputPresent(d) == outfile[d] # "absent"

\* C1: every error raised while a document is processed (read failure,
\* exhausted retries, write failure) is caught inside process_file and
\* logged by it, never leaves the task, and the orchestrator still ends the
\* run normally.
C1_FailureIsolation ==
    /\ \A d \in Docs :
         Failed(d) => /\ ~uncaught[d]
                      /\ Count(tlog[d], "process_error") >= 1
    /\ RunFinished => exit_status = "0"

\* C2: when a run over a non-empty input directory has finished, the number
\* of output files equals the number of documents whose task met no read,
\* completion or write error (an empty document, which process_file reports
\* as an error, is counted with the read errors).
C2_PartialFailureInvariant ==
    RunFinished =>
        Cardinality({d \in Docs : OutputPresent(d)})
          = Cardinality({d \in Docs : outcome[d] = "ok"})

\* C3: a write to a document's output location is only ever started right
\* after send_prompt returned a response for that document, and a task whose
\* read failed or whose retries were exhausted never touches its output.
C3_WriteOnlyAfterResponse ==
    \A d \in Docs :
        /\ tpc[d] = "write" => HasResponse(d)
        /\ \A i \in DOMAIN events[d] :
             events[d][i].op = "write" =>
                 i > 1 /\ events[d][i - 1] = Ev("call", "ok", 0)
        /\ (Done(d) /\ outcome[d] \in {"read_error", "empty", "exhausted"}) =>
               ~WriteStarted(d) /\ outfile[d] = "absent"

\* C3 witness: one document was written after its response while another
\* ended with its retries exhausted.
C3_Witness ==
    \E d, e \in Docs :
        /\ WriteStarted(d) /\ outfile[d] = "written"
        /\ outcome[e] = "exhausted" /\ ~WriteStarted(e)

\* C4: the run returns from the executor block only when every submitted
\* task has been started and has finished.
C4_BatchSynchrony ==
    pc = "exited" =>
        /\ work_queue = <<>>
        /\ \A d \in Docs : d <= submitted => Done(d) /\ events[d] # <<>>
        /\ \A d \in Docs : d > submitted => tpc[d] = "unsubmitted"

\* C4 witness: a finished run over at least two documents, one of which
\* went through a backoff sleep.
C4_Witness ==
    /\ RunFinished
    /\ ndocs >= 2
    /\ \E d \in Docs : EventsOf(d, {"sleep"}) # <<>>

(* ------------------------- retry and backoff -------------------------- *)
\* The remote calls and backoff sleeps of d's request, in the order made.
RetryTrace(d) == EventsOf(d, {"call", "sleep"})

\* k failed calls, the i-th followed by a sleep of backoff_factor^i, then
\* `last`: positions 2i-1 are the failed calls, positions 2i the sleeps.
RECURSIVE FailuresThenSleeps(_)
FailuresThenSleeps(k) ==
    IF k = 0 THEN <<>>
    ELSE FailuresThenSleeps(k - 1)
           \o <<Ev("call", "fail", 0), Ev("sleep", "ok", Pow(backoff_factor, k))>>

RetryThenSuccess(k) == FailuresThenSleeps(k) \o <<Ev("call", "ok", 0)>>

Exhaustion(R) == FailuresThenSleeps(R - 1) \o <<Ev("call", "fail", 0)>>

\* d's request ended with a successful remote call.
Succeeded(d) == Count(events[d], Ev("call", "ok", 0)) > 0

\* C5 as stated: a request that fails k < R times and then succeeds made
\* k+1 calls and k sleeps of backoff_factor^1 .. backoff_factor^k, each
\* between the failed call and the next one, and the document has its
\* output file.
C5_Original ==
    \A d \in Docs :
        (Done(d) /\ Succeeded(d)) =>
            /\ FailedCalls(d) < max_retries
            /\ RetryTrace(d) = RetryThenSuccess(FailedCalls(d))
            /\ outfile[d] = "written"

\* C5 amended: as above, and the document has its output file unless the
\* write of the response fails.
C5_RetryThenSuccess ==
    \A d \in Docs :
        Succeeded(d) =>
            /\ FailedCalls(d) < max_retries
            /\ RetryTrace(d) = RetryThenSuccess(FailedCalls(d))
            /\ tpc[d] \in {"write", "done"}
            /\ Done(d) =>
                 /\ WriteStarted(d)
                 /\ events[d][Len(events[d])] = Ev("write", "ok", 0)
                      => outfile[d] = "written" /\ outcome[d] = "ok"

\* C5 witness: a request that failed twice, slept 2 then 4, succeeded on
\* the third call and had its response written.
C5_Witness ==
    \E d \in Docs :
        /\ Done(d)
        /\ FailedCalls(d) = 2
        /\ Succeeded(d)
        /\ outfile[d] = "written"

\* Every attempt of d's request failed.
AllAttemptsFailed(d) == FailedCalls(d) = max_retries

\* C6: a request whose call fails on each of the R attempts made exactly R
\* calls and R-1 sleeps (none after the last failure), then send_prompt
\* raised: nothing was written and process_file saw and logged one error.
C6_RetryExhaustion ==
    \A d \in Docs :
        /\ AllAttemptsFailed(d) =>
              /\ RetryTrace(d) = Exhaustion(max_retries)
              /\ Done(d) /\ outcome[d] = "exhausted"
              /\ ~WriteStarted(d)
              /\ Count(tlog[d], "process_error") = 1
              /\ ~uncaught[d]
        /\ (Done(d) /\ outcome[d] = "exhausted") => AllAttemptsFailed(d)

\* C6 witness: a request with the largest retry budget of the model ran out
\* of attempts after its sleeps.
C6_Witness ==
    \E d \in Docs :
        /\ max_retries >= 3
        /\ outcome[d] = "exhausted"
        /\ Len(EventsOf(d, {"sleep"})) = max_retries - 1

\* C7: a document whose call failed on every attempt has no output file and
\* exactly one "Max retries reached" entry in its log.
C7_ExhaustedLoggedOnce ==
    \A d \in Docs :
        AllAttemptsFailed(d) =>
            /\ ~OutputPresent(d)
            /\ Count(tlog[d], "max_retries") = 1

\* C7 witness: retries exhausted after more than one logged attempt, in a
\* finished run.
C7_Witness ==
    \E d \in Docs :
        /\ RunFinished
        /\ AllAttemptsFailed(d)
        /\ Count(tlog[d], "attempt_error") >= 2
        /\ ~OutputPresent(d)

PastLoadPrompts ==
    \/ pc \in {"list", "submit"}
    \/ pc = "exited" /\ Count(main_log, "config_error") = 0

\* A fragment named in the composition list is missing or unreadable (the
\* prompts directory does not change once main has called load_prompts).
FragmentUnavailable == \E f \in Listed(prompt_files) : frag[f] # "ok"

\* The run stopped before dispatch: the input directory was not enumerated,
\* no pool was created, no task was submitted, no document was read, no
\* remote call was made and no output file was written.
AbortedBeforeDispatch ==
    /\ pc = "exited" /\ exit_status = "1"
    /\ ~listed
    /\ max_workers = 0 /\ submitted = 0 /\ work_queue = <<>>
    /\ \A d \in Docs :
         tpc[d] = "unsubmitted" /\ events[d] = <<>> /\ ~OutputPresent(d)

C10_MainAbortsOnMissingFragment ==
    /\ (variant = "main" /\ PastLoadPrompts /\ FragmentUnavailable) =>
            AbortedBeforeDispatch
    /\ (variant = "main" /\ listed) => system_prompt = prompt_files

\* C10 witness: gpt_processor_main.py stopped with status 1 on an
\* unavailable fragment, with documents waiting in the input directory.
C10_Witness ==
    /\ variant = "main"
    /\ pc = "exited" /\ exit_status = "1"
    /\ main_log = <<>>
    /\ FragmentUnavailable
    /\ ndocs >= 1

\* C11: once configuration, prompt composition and enumeration succeeded,
\* the run ends with exit status 0 whatever its documents' tasks did, all of
\* them failing included; the main thread records nothing about a document,
\* whose failure shows only in the entries logged by its task.
C11_ExitStatusIgnoresOutcomes ==
    /\ (listed /\ pc = "exited") => exit_status = "0"
    /\ RunFinished => /\ exit_status = "0"
                      /\ main_log = <<>>

\* C11 witness: a finished run of two or more documents, every one of which
\* failed, and they did not all fail the same way.
C11_Witness ==
    /\ RunFinished
    /\ exit_status = "0"
    /\ ndocs >= 2
    /\ \A d \in Docs : Failed(d)
    /\ \E d, e \in Docs : outcome[d] # outcome[e]

\* C12: when the input directory holds no document, the run ends at the
\* enumeration with exit status 0 and the one log entry saying so: no pool
\* is created, nothing is submitted, called or written.
C12_EmptyInputDirectory ==
    (listed /\ ndocs = 0) =>
        /\ pc = "exited" /\ exit_status = "0"
        /\ main_log = <<"no_input_files">>
        /\ max_workers = 0 /\ submitted = 0 /\ work_queue = <<>>
        /\ events = <<>> /\ outfile = <<>>

\* C12 witness: a run that enumerated an empty input directory and ended.
C12_Witness ==
    /\ listed /\ ndocs = 0
    /\ pc = "exited" /\ exit_status = "0"
    /\ Len(main_log) = 1

\* The construction of Config raised (no credential, or no configuration
\* file).
ConfigFailed == Count(main_log, "config_error") > 0

\* C13: a configuration failure ends the process with a non-zero status
\* before the system prompt is composed, before the input directory is
\* enumerated and before any document is read or any call made; the
\* configuration is loaded once.
C13_ConfigFailureFatal ==
    ConfigFailed =>
        /\ AbortedBeforeDispatch
        /\ exit_status # "0"
        /\ main_log = <<"config_error">>
        /\ system_prompt = <<>> /\ prompt_text = <<>> /\ reads = <<>>

\* C13 witness: the process ended on a configuration failure with
\* documents waiting in the input directory.
C13_Witness ==
    /\ ConfigFailed
    /\ pc = "exited" /\ exit_status = "1"
    /\ ndocs >= 1

\* The read of document d failed (no permission, or the file is gone).
ReadFailed(d) == Count(events[d], Ev("read", "fail", 0)) > 0

\* C14: a document that cannot be read ends its task with a logged failure,
\* with no remote call made for it and no output file; the documents
\* enumerated with it are still processed to their end.
C14_ReadFailureLocal ==
    /\ \A d \in Docs :
         ReadFailed(d) =>
             /\ Done(d)
             /\ tlog[d] # <<>>
             /\ EventsOf(d, {"call", "sleep", "write"}) = <<>>
             /\ ~OutputPresent(d)
    /\ RunFinished => \A d \in Docs : Done(d)

\* Writing d's output failed, at open() or at write().
WriteFailed(d) ==
    \E i \in DOMAIN events[d] :
        events[d][i].op = "write" /\ events[d][i].res # "ok"

\* C15: a failed write ends the task: the failure is logged and caught, the
\* failed write is the task's last step (no further call, no second write),
\* and the response is not in the output file.
C15_WriteFailureTerminal ==
    \A d \in Docs :
        WriteFailed(d) =>
            /\ Done(d) /\ outcome[d] = "write_error"
            /\ ~uncaught[d]
            /\ Count(tlog[d], "process_error") + Count(tlog[d], "write_error") = 1
            /\ Count(tlog[d], "processed") = 0
            /\ Len(EventsOf(d, {"write"})) = 1
            /\ events[d][Len(events[d])].op = "write"
            /\ outfile[d] # "written"

\* C15 witness: a task whose request was retried and answered, and whose
\* write then failed.
C15_Witness ==
    \E d \in Docs :
        /\ WriteFailed(d)
        /\ Done(d)
        /\ FailedCalls(d) >= 1
        /\ Succeeded(d)

\* The tasks that have d's output location open for writing, or have
\* written to it.
WritersOf(path) ==
    {e \in Docs : OutputPath(e) = path /\ (tpc[e] = "write" \/ WriteStarted(e))}

\* C16: two distinct documents of a run have distinct output locations, so
\* no output location is ever being written, or has been written, by more
\* than one task.
C16_ExclusiveOutputOwnership ==
    /\ \A d, e \in Docs : d # e => OutputPath(d) # OutputPath(e)
    /\ \A d \in Docs : Cardinality(WritersOf(OutputPath(d))) <= 1

\* C16 witness: two tasks of gpt_processor_main.py are at their write at
\* the same time, in a directory where the name of one document is the
\* output name of the other.
C16_Witness ==
    \E d, e \in Docs :
        /\ d # e
        /\ variant = "main"
        /\ OutputName(variant, DocName(d)) = DocName(e)
        /\ tpc[d] = "write" /\ tpc[e] = "write"

\* Task d opened its output location for writing: open(..., 'w') truncated
\* or created the file there.
OpenedForWriting(d) ==
    \E i \in DOMAIN events[d] :
        events[d][i].op = "write" /\ events[d][i].res \in {"ok", "write_fails"}

\* The file of input document e was truncated or replaced by a task.
Mutated(e) ==
    \E d \in Docs : OutputPath(d) = InputPath(e) /\ OpenedForWriting(d)

\* C17: whatever the input and output directories are, the output
\* directory being the input directory included, no step of a run writes
\* to, truncates or replaces a file enumerated as an input document.
C17_DocumentsNeverMutated == \A e \in Docs : ~Mutated(e)

\* The log has an error entry naming document d ("Error processing file
\* ...", "User prompt is empty for file ...", "Error reading file ...",
\* "Error writing to file ...").
LoggedFailure(d) ==
    \E i \in DOMAIN tlog[d] :
        tlog[d][i] \in {"process_error", "empty_prompt", "read_error", "write_error"}

\* C18: every enumerated document gets one task, run once, and when the run
\* has finished each task has ended in exactly one of two ways: the
\* response written to the document's output file, or a logged failure
\* naming the document.
C18_OneTaskOneOutcome ==
    /\ \A d \in Docs : /\ Len(EventsOf(d, {"read"})) <= 1
                       /\ Count(work_queue, d) <= 1
    /\ RunFinished =>
          \A d \in Docs :
              /\ Done(d)
              /\ Len(EventsOf(d, {"read"})) = 1
              /\ (outfile[d] = "written") # LoggedFailure(d)

\* load_prompts returned a system prompt to main.
Composed == PastLoadPrompts /\ pc # "prompts" /\ (pc = "exited" => listed)

\* The number of places of text where pat starts.
Occurrences(pat, text) ==
    Cardinality({i \in 1..(Len(text) - Len(pat) + 1) :
                    SubSeq(text, i, i + Len(pat) - 1) = pat})

\* Every distinct name of the list was read from its file once.
ReadOncePerName ==
    /\ Len(reads) = Cardinality(Listed(prompt_files))
    /\ \A f \in Listed(prompt_files) : Count(reads, f) = 1

\* C19: in installer.py, composing a list reads each distinct fragment name
\* once, however often the name occurs, and the text of a fragment named
\* twice is twice in the system prompt.
C19_FragmentCache ==
    (variant = "installer" /\ Composed) =>
        /\ ReadOncePerName
        /\ \A f \in Listed(prompt_files) :
             (Count(prompt_files, f) >= 2 /\ content[f] # <<>>) =>
                 Occurrences(content[f], prompt_text) >= 2

\* The texts of the listed fragments from position i on, in list order,
\* with a blank line between one and the next.
RECURSIVE JoinedByBlankLine(_, _)
JoinedByBlankLine(files, i) ==
    IF i > Len(files) THEN <<>>
    ELSE IF i = Len(files) THEN content[files[i]]
    ELSE content[files[i]] \o Separator \o JoinedByBlankLine(files, i + 1)

\* C20: for a list of existing fragments, load_prompts returns the
\* fragments' texts in list order joined by the blank-line separator,
\* nothing of any fragment added, dropped or reordered.
C20_CompositionResult ==
    (Composed /\ ~FragmentUnavailable) =>
        prompt_text = JoinedByBlankLine(prompt_files, 1)

\* The remote calls and the backoff sleeps made for document d.
Calls(d) == Len(EventsOf(d, {"call"}))
Sleeps(d) == Len(EventsOf(d, {"sleep"}))

\* C21: a rate-limit error, a service error, any other exception of the
\* call and a result without a first choice are all handled alike by
\* send_prompt: each is a failed attempt and never a success, each uses up
\* one attempt, each is followed by one backoff sleep while attempt < R, and
\* the R-th ends the request, whatever was caught.
C21_UniformTransient ==
    \A d \in Docs :
        /\ Len(caught[d]) = FailedCalls(d)
        /\ Calls(d) = Len(caught[d]) + (IF Succeeded(d) THEN 1 ELSE 0)
        /\ tpc[d] = "call" => attempt[d] = Len(caught[d]) + 1
        /\ tpc[d] = "sleep" => /\ attempt[d] = Len(caught[d])
                               /\ attempt[d] < max_retries
                               /\ Sleeps(d) = Len(caught[d]) - 1
        /\ (tpc[d] # "sleep" /\ caught[d] # <<>>) =>
               Sleeps(d) = Min(Len(caught[d]), max_retries - 1)
        /\ (caught[d] # <<>> /\ Len(caught[d]) >= max_retries) =>
               Done(d) /\ outcome[d] = "exhausted" /\ ~WriteStarted(d)

\* C21 witness: a request that met a result without a first choice and an
\* error of another kind, each followed by a sleep, and then succeeded.
C21_Witness ==
    \E d \in Docs :
        /\ \E i \in DOMAIN caught[d] : caught[d][i] = "no_choice"
        /\ \E i \in DOMAIN caught[d] : caught[d][i] # "no_choice"
        /\ Sleeps(d) = Len(caught[d])
        /\ Succeeded(d)

\* Every remote call of the run fails, and nothing else does.
Outage == ~faulty /\ "ok" \notin call_results

\* The run is over and every document's task ended on its R-th failed call.
OutageEnded ==
    /\ pc = "exited"
    /\ \A d \in Docs :
         /\ Done(d) /\ outcome[d] = "exhausted"
         /\ Calls(d) = max_retries
         /\ ~WriteStarted(d)

\* C22: with fair scheduling and operations that return, a run in which
\* every remote call fails terminates, for any number of documents, more
\* than the pool has workers included: every task reaches its failure
\* after R calls and the process exits.
C22_OutageTerminates == Outage ~> OutageEnded

\* C22 witness: a run against a service that is down, over more documents
\* than the pool has workers, has ended with every task failed.
C22_Witness ==
    /\ Outage
    /\ ndocs > PoolCeiling
    /\ OutageEnded

\* C23: a task that holds a worker can always take its next step, whatever
\* the other tasks are doing (sleeping in a backoff or waiting on a remote
\* call included), and while a task is queued and the pool is not full the
\* task at the head of the queue can start.
C23_BlockingConfined ==
    /\ \A d \in Docs : d \in Active => ENABLED TaskStep(d)
    /\ (work_queue # <<>> /\ Cardinality(Active) < max_workers) =>
           ENABLED worker_start(Head(work_queue))

\* C23 witness: one task is in its backoff sleep while another waits on
\* its remote call.
C23_Witness ==
    \E d, e \in Docs :
        /\ d # e
        /\ tpc[d] = "sleep"
        /\ tpc[e] = "call"

\* C24: each request has its own attempt counter: it starts at 1, goes up
\* by one with each failed call of that request and of no other, stays
\* within 1..R, and a request starts at 1 whatever earlier requests through
\* the same APIClient went through.
C24_PerRequestRetryState ==
    \A d \in Docs :
        /\ tpc[d] \in {"unsubmitted", "queued", "read"} => attempt[d] = 0
        /\ tpc[d] \in {"call", "sleep"} => attempt[d] \in 1..max_retries
        /\ tpc[d] = "call" => attempt[d] = FailedCalls(d) + 1
        /\ tpc[d] = "sleep" => attempt[d] = FailedCalls(d)
        /\ (tpc[d] \in {"write", "done"} /\ Calls(d) > 0) =>
               attempt[d] = Calls(d) /\ attempt[d] \in 1..max_retries

\* C24 witness: one request used up all its attempts, more than one, and
\* the request of another document is at its first attempt.
C24_Witness ==
    \E d, e \in Docs :
        /\ d # e
        /\ outcome[d] = "exhausted" /\ attempt[d] = max_retries /\ max_retries >= 2
        /\ tpc[e] = "call" /\ attempt[e] = 1

\* What load_prompts gives for the run's composition list and prompts
\* directory.
Composition == load_prompts(variant, prompt_files, frag, content)

\* C25: from the first submission on, the system prompt is the one
\* load_prompts composed and the fragment cache and the fragment reads are
\* as load_prompts left them; every task is given that system prompt and
\* every request of every document, retries included, carries it.
C25_SharedSystemPrompt ==
    /\ (pc = "submit" \/ submitted > 0) =>
           LET r == Composition IN
           /\ prompt_text = r.text
           /\ cache = r.cache
           /\ reads = r.reads
    /\ \A d \in Docs :
         /\ tpc[d] # "unsubmitted" => arg_prompt[d] = prompt_text
         /\ sent[d] \subseteq {prompt_text}
         /\ Calls(d) > 0 => sent[d] = {prompt_text}

\* C25 witness: a prompt composed of two fragments was sent with the
\* requests of two documents, one of them retried.
C25_Witness ==
    /\ Len(prompt_files) = 2
    /\ \E d, e \in Docs :
         /\ d # e
         /\ Calls(d) >= 2 /\ sent[d] = {prompt_text}
         /\ Calls(e) >= 1 /\ sent[e] = {prompt_text}

\* C26: for every value of max_retries, zero and negative included,
\* send_prompt returns only with the text of a call that succeeded (else it
\* raises), so process_file never comes to its write, and no output file
\* is made, for a document whose request got no response.
C26_NoReturnWithoutResponse ==
    \A d \in Docs :
        (tpc[d] = "write" \/ WriteStarted(d) \/ OutputPresent(d)) => Succeeded(d)

\* The read of document d gave the empty string.
ReadEmpty(d) == Count(events[d], Ev("read", "empty", 0)) > 0

\* C27: in gpt_processor_main.py an empty document and a document whose
\* read failed are handled alike: process_file logs the error of the empty
\* user prompt and returns, with no remote call and no output file.
C27_EmptyHandledAsReadFailure ==
    \A d \in Docs :
        (variant = "main" /\ (ReadEmpty(d) \/ ReadFailed(d))) =>
            /\ Done(d)
            /\ ~uncaught[d]
            /\ Count(tlog[d], "empty_prompt") = 1
            /\ EventsOf(d, {"call", "sleep", "write"}) = <<>>
            /\ ~OutputPresent(d)

\* C28: an output file found at a document's output location is still
\* there, unchanged, when the document's task fails at its read or by
\* exhausting its retries; an output location is opened for writing only
\* by a task that obtained a response.  (No step produces "stale" or
\* "absent": a location in one of these states is as the run found it.)
C28_StaleOutputsUntouched ==
    \A d \in Docs :
        /\ outcome[d] \in {"read_error", "empty", "exhausted"} =>
               outfile[d] \in {"stale", "absent"} /\ ~WriteStarted(d)
        /\ outfile[d] \in {"written", "truncated"} => Succeeded(d)
        /\ WriteStarted(d) => Succeeded(d)

\* C28 witness: a finished run in which one document's task failed at its
\* read, another's exhausted its retries, and both stale output files are
\* as they were.
C28_Witness ==
    /\ RunFinished
    /\ \E d, e \in Docs :
         /\ outcome[d] = "read_error" /\ outfile[d] = "stale"
         /\ outcome[e] = "exhausted" /\ outfile[e] = "stale"

====
